---------------------------- MODULE Spec2Model ----------------------------
(***************************************************************************)
(* A model of the data-handling code of the electrical-construction video  *)
(* pipeline:                                                               *)
(*   - 01_download_URL.py      load_existing_videos / remove_duplicates /  *)
(*                             save_to_csv  (the incremental CSV merge)    *)
(*   - 01_analyzeTranscripts.py analyze_transcript / process_videos        *)
(*   - 03_breakToColumn.py     the list-column explode                     *)
(*                                                                         *)
(* Python values.  A str is a sequence of characters, each character a     *)
(* one-character TLA+ string; an int is an integer; None is the reserved   *)
(* value None below, which is no character sequence.  A CSV file is kept   *)
(* at the level the csv module parses it to: a header (sequence of column  *)
(* names) and rows (sequences of cells, each cell a str).                  *)
(***************************************************************************)
EXTENDS Integers, Sequences, FiniteSets, TLC

VARIABLES
    file,             \* the CSV at output_file: [exists, header, rows]
    existing_videos,  \* save_to_csv: what load_existing_videos returned
    videos,           \* save_to_csv: the batch of new records it was given
    unique_videos,    \* save_to_csv: the result of remove_duplicates
    path_existed,     \* save_to_csv: what os.path.exists(file_path) returned
    outcome,          \* of the last save_to_csv: "none", "ok" or "raised"
    \* two runs of the script at once on one path
    pc,               \* where each run is: "start", "loaded", "opened",
                      \* "done" or "raised"
    loc,              \* each run's existing_videos, videos, unique_videos
    events,           \* the order of the runs' loads, opens and closes
    \* 01_analyzeTranscripts.py
    data,             \* process_videos: the videos read from input_file
    out_csv,          \* the CSV at output_file: [exists, header, rows]
    run,              \* process_videos: where it is, and its locals
    analysis,         \* process_videos: what analyze_transcript returned
    \* 03_breakToColumn.py
    problems_csv,     \* the file 02_Problems.csv: [exists, header, rows]
    stmt,             \* the statement the script is at, "done" or "raised"
    df,               \* the DataFrame read from 02_Problems.csv
    df_exploded,      \* the DataFrame built from df
    exploded_csv      \* the file 03_exploded_problems_challenges.csv

run_vars == <<existing_videos, videos, unique_videos, path_existed, outcome>>

conc_vars == <<pc, loc, events>>

analysis_vars == <<data, out_csv, run, analysis>>

explode_vars == <<problems_csv, stmt, df, df_exploded, exploded_csv>>

vars == <<file, run_vars, conc_vars, analysis_vars, explode_vars>>

-----------------------------------------------------------------------------
(* Bounds *)

\* The longest batch of new records handed to one save_to_csv run.
MaxBatch == 2

\* The most rows of a table found on disk that save_to_csv did not write.
MaxDiskRows == 2

\* The most videos in the input of process_videos (VideoID 1..MaxVideos).
MaxVideos == 2

\* The most data rows of 02_Problems.csv.
MaxTableRows == 2

-----------------------------------------------------------------------------
(* Python values *)

None == <<"None">>

Digits == <<"0", "1", "2", "3", "4", "5", "6", "7", "8", "9">>

IsDigit(c) == c \in {"0", "1", "2", "3", "4", "5", "6", "7", "8", "9"}

DigitVal(c) ==
    CASE c = "0" -> 0 [] c = "1" -> 1 [] c = "2" -> 2 [] c = "3" -> 3
      [] c = "4" -> 4 [] c = "5" -> 5 [] c = "6" -> 6 [] c = "7" -> 7
      [] c = "8" -> 8 [] c = "9" -> 9

\* str(n) for a Python int: decimal, "-" in front of a negative number.
RECURSIVE NatToStr(_)
NatToStr(n) ==
    IF n < 10 THEN <<Digits[n + 1]>>
    ELSE NatToStr(n \div 10) \o <<Digits[(n % 10) + 1]>>

IntToStr(n) == IF n < 0 THEN <<"-">> \o NatToStr(0 - n) ELSE NatToStr(n)

\* int(s) for a str s succeeds on an optional sign followed by one or more
\* decimal digits (surrounding blanks and "_" separators, which Python also
\* accepts, are not in the alphabet used here); otherwise ValueError.
IsSigned(s) == Len(s) >= 1 /\ s[1] \in {"-", "+"}

Unsigned(s) == IF IsSigned(s) THEN Tail(s) ELSE s

IsIntLiteral(s) ==
    LET u == Unsigned(s) IN
    /\ Len(u) >= 1
    /\ \A i \in 1..Len(u) : IsDigit(u[i])

RECURSIVE ParseNat(_)
ParseNat(s) ==
    LET n == Len(s) IN
    IF n = 0 THEN 0
    ELSE 10 * ParseNat(SubSeq(s, 1, n - 1)) + DigitVal(s[n])

ParseInt(s) ==
    IF IsSigned(s) /\ s[1] = "-" THEN 0 - ParseNat(Tail(s))
    ELSE ParseNat(Unsigned(s))

-----------------------------------------------------------------------------
(* The csv module *)

\* fieldnames of save_to_csv
fieldnames ==
    <<"VideoID", "Title", "URL", "Keyword", "Comment Count", "Like Count",
      "View Count", "Duration", "Description", "Tags", "Category ID">>

AbsentFile == [exists |-> FALSE, header |-> <<>>, rows |-> <<>>]

HasCol(header, col) == \E i \in 1..Len(header) : header[i] = col

\* csv.DictReader builds dict(zip(fieldnames, row)): of two columns with the
\* same name the later one is kept.
ColIndex(header, col) ==
    CHOOSE i \in 1..Len(header) :
        /\ header[i] = col
        /\ \A j \in (i + 1)..Len(header) : header[j] # col

\* row[col] for a column of the header: a row shorter than the header has
\* its missing cells filled with restval, which is None.
RowItem(header, row, col) ==
    LET i == ColIndex(header, col) IN
    IF i <= Len(row) THEN row[i] ELSE None

\* csv.DictReader skips the rows csv.reader returns as [] (blank lines).
DictReaderRows(f) == SelectSeq(f.rows, LAMBDA r : Len(r) > 0)

\* csv.DictWriter renders None as the empty field and a str as itself.
CsvText(x) == IF x = None THEN <<>> ELSE x

-----------------------------------------------------------------------------
(* load_existing_videos *)

\* row.get(col, ''): the cell, None for a cell the row lacks, '' for a
\* column the header lacks.
TextGet(header, row, col) ==
    IF HasCol(header, col) THEN RowItem(header, row, col) ELSE <<>>

\* int(row.get(col, 0)) raises TypeError on None and ValueError on a str
\* that is no integer literal.
CounterRaises(header, row, col) ==
    /\ HasCol(header, col)
    /\ LET x == RowItem(header, row, col) IN x = None \/ ~IsIntLiteral(x)

CounterGet(header, row, col) ==
    IF HasCol(header, col) THEN ParseInt(RowItem(header, row, col)) ELSE 0

\* One pass of the loop body raises: a counter that int() rejects, or
\* row['Title'] / row['URL'] with no such column (KeyError).
RowRaises(header, row) ==
    \/ CounterRaises(header, row, "Comment Count")
    \/ CounterRaises(header, row, "Like Count")
    \/ CounterRaises(header, row, "View Count")
    \/ ~HasCol(header, "Title")
    \/ ~HasCol(header, "URL")

\* RowToVideo reading the view counter under a column name the writer does
\* not use.
RowToVideo_OtherColumn(header, row) ==
    << RowItem(header, row, "Title"),
       RowItem(header, row, "URL"),
       TextGet(header, row, "Keyword"),
       [ comment_count |-> CounterGet(header, row, "Comment Count"),
         like_count    |-> CounterGet(header, row, "Like Count"),
         view_count    |-> CounterGet(header, row, "Views"),
         duration      |-> TextGet(header, row, "Duration"),
         description   |-> TextGet(header, row, "Description"),
         tags          |-> TextGet(header, row, "Tags"),
         category_id   |-> TextGet(header, row, "Category ID") ] >>

\* The tuple (Title, URL, Keyword, video_details) appended for one row.
RowToVideo(header, row) ==
    << RowItem(header, row, "Title"),
       RowItem(header, row, "URL"),
       TextGet(header, row, "Keyword"),
       [ comment_count |-> CounterGet(header, row, "Comment Count"),
         like_count    |-> CounterGet(header, row, "Like Count"),
         view_count    |-> CounterGet(header, row, "View Count"),
         duration      |-> TextGet(header, row, "Duration"),
         description   |-> TextGet(header, row, "Description"),
         tags          |-> TextGet(header, row, "Tags"),
         category_id   |-> TextGet(header, row, "Category ID") ] >>

\* The function has no try/except: the first row that raises ends it, and
\* the exception leaves save_to_csv as well.
load_existing_videos(f) ==
    IF ~f.exists THEN [raised |-> FALSE, videos |-> <<>>]
    ELSE LET rows == DictReaderRows(f) IN
         IF \E i \in 1..Len(rows) : RowRaises(f.header, rows[i])
         THEN [raised |-> TRUE, videos |-> <<>>]
         ELSE [raised |-> FALSE,
               videos |-> [i \in 1..Len(rows) |-> RowToVideo(f.header, rows[i])]]

-----------------------------------------------------------------------------
(* remove_duplicates *)

\* DictSet keeping the first value of a key (setdefault instead of d[k] = v).
DictSet_KeepFirst(d, k, v) ==
    IF \E i \in 1..Len(d) : d[i][1] = k THEN d ELSE Append(d, <<k, v>>)

\* DictSet moving an overwritten key to the end (delete, then insert).
DictSet_MoveToEnd(d, k, v) ==
    Append(SelectSeq(d, LAMBDA e : e[1] # k), <<k, v>>)

\* d[k] = v on a Python dict kept as a sequence of <<key, value>> pairs in
\* insertion order: a key already present keeps its place and takes the new
\* value, a new key goes to the end.
DictSet(d, k, v) ==
    IF \E i \in 1..Len(d) : d[i][1] = k
    THEN [i \in 1..Len(d) |-> IF d[i][1] = k THEN <<k, v>> ELSE d[i]]
    ELSE Append(d, <<k, v>>)

\* {video[1]: video for video in videos}
RECURSIVE DictByURL(_)
DictByURL(vs) ==
    IF Len(vs) = 0 THEN <<>>
    ELSE DictSet(DictByURL(SubSeq(vs, 1, Len(vs) - 1)),
                 vs[Len(vs)][2], vs[Len(vs)])

DictValues(d) == [i \in 1..Len(d) |-> d[i][2]]

\* remove_duplicates dropping only adjacent repeats.
remove_duplicates_Adjacent(vs) ==
    LET kept == SelectSeq([i \in 1..Len(vs) |-> <<i, vs[i]>>],
                          LAMBDA e : e[1] = Len(vs) \/ vs[e[1] + 1][2] # e[2][2])
    IN  [n \in 1..Len(kept) |-> kept[n][2]]

remove_duplicates(vs) == DictValues(DictByURL(vs))

-----------------------------------------------------------------------------
(* save_to_csv *)

\* videos_with_id numbering from 0 (i instead of i+1).
videos_with_id_FromZero(unique) ==
    [i \in 1..Len(unique) |-> <<i - 1>> \o unique[i]]

\* [(i+1, *video) for i, video in enumerate(unique_videos)]
videos_with_id(unique) == [i \in 1..Len(unique) |-> <<i>> \o unique[i]]

\* The dict handed to writer.writerow, as the cells DictWriter writes.
WriteRow(video) ==
    << IntToStr(video[1]),
       CsvText(video[2]),
       CsvText(video[3]),
       CsvText(video[4]),
       IntToStr(video[5].comment_count),
       IntToStr(video[5].like_count),
       IntToStr(video[5].view_count),
       CsvText(video[5].duration),
       CsvText(video[5].description),
       CsvText(video[5].tags),
       CsvText(video[5].category_id) >>

\* open(output_file, 'w'), writeheader and one writerow per video.
WrittenFile(with_id) ==
    [ exists |-> TRUE,
      header |-> fieldnames,
      rows   |-> [i \in 1..Len(with_id) |-> WriteRow(with_id[i])] ]

save_to_csv(new) ==
    LET loaded == load_existing_videos(file) IN
    /\ videos' = new
    /\ path_existed' = file.exists
    /\ UNCHANGED <<conc_vars, analysis_vars, explode_vars>>
    /\ IF loaded.raised
       THEN /\ outcome' = "raised"
            /\ UNCHANGED <<file, existing_videos, unique_videos>>
       ELSE /\ existing_videos' = loaded.videos
            /\ unique_videos' = remove_duplicates(existing_videos' \o new)
            /\ file' = WrittenFile(videos_with_id(unique_videos'))
            /\ outcome' = "ok"

-----------------------------------------------------------------------------
(* The records the collection step hands over (search_videos_by_keyword):  *)
(* (video_title, video_url, keyword, video_details).                       *)

Details(views, descr) ==
    [ comment_count |-> 0,
      like_count    |-> 3,
      view_count    |-> views,
      duration      |-> <<"0", ":", "1">>,
      description   |-> descr,
      tags          |-> <<"t">>,
      category_id   |-> <<"2">> ]

\* Three URLs; the first is found under two keywords with different titles,
\* view counts and descriptions.
NewVideos ==
    { << <<"a">>, <<"u">>, <<"k">>, Details(7, <<>>) >>,
      << <<"b">>, <<"u">>, <<"m">>, Details(120, <<"e">>) >>,
      << <<"a">>, <<"v">>, <<"k">>, Details(7, <<>>) >>,
      << <<"b">>, <<"w">>, <<"m">>, Details(120, <<"e">>) >> }

SeqsUpTo(S, n) == UNION { [1..k -> S] : k \in 0..n }

Batches == SeqsUpTo(NewVideos, MaxBatch)

-----------------------------------------------------------------------------
(* Repeated runs of the script against one path, starting with no file *)

\* No run of save_to_csv has started.
NoRunYet ==
    /\ existing_videos = <<>>
    /\ videos = <<>>
    /\ unique_videos = <<>>
    /\ path_existed = FALSE
    /\ outcome = "none"

Procs == {1, 2}

NoLocals == [existing_videos |-> <<>>, videos |-> <<>>, unique_videos |-> <<>>]

\* No two runs at once.
NoConcurrentRuns ==
    /\ pc = [p \in Procs |-> "start"]
    /\ loc = [p \in Procs |-> NoLocals]
    /\ events = <<>>

\* 01_analyzeTranscripts.py has not run: nothing read, no output file.
NoAnalysisYet ==
    /\ data = <<>>
    /\ out_csv = AbsentFile
    /\ run = [ phase |-> "idle", start_id |-> 0, end_id |-> 0,
               processed_video_ids |-> {}, idx |-> 1,
               videos_processed |-> 0, videos_skipped |-> 0 ]
    /\ analysis = [error |-> "", value |-> [type |-> "none", fields |-> <<>>]]

\* 03_breakToColumn.py has not run.
NoTable == [columns |-> <<>>, dtypes |-> <<>>, rows |-> <<>>]

NoExplodeYet ==
    /\ stmt = "read_csv"
    /\ df = NoTable
    /\ df_exploded = NoTable
    /\ exploded_csv = AbsentFile

NoProblemsFile ==
    /\ problems_csv = AbsentFile
    /\ NoExplodeYet

Init ==
    /\ file = AbsentFile
    /\ NoRunYet
    /\ NoConcurrentRuns
    /\ NoAnalysisYet
    /\ NoProblemsFile

Next == \E new \in Batches : save_to_csv(new)

Spec == Init /\ [][Next]_vars

-----------------------------------------------------------------------------
(* Properties of the merge, over repeated runs starting with no file *)

\* existing ++ new of the last run
all_videos == existing_videos \o videos

URLsOf(vs) == { vs[i][2] : i \in 1..Len(vs) }

Occurrences(vs, u) == { i \in 1..Len(vs) : vs[i][2] = u }

FirstOcc(vs, u) ==
    CHOOSE i \in Occurrences(vs, u) : \A j \in Occurrences(vs, u) : i <= j

LastOcc(vs, u) ==
    CHOOSE i \in Occurrences(vs, u) : \A j \in Occurrences(vs, u) : j <= i

\* The cells of a written row after VideoID are the fields of video v, the
\* counters in decimal.
RowHolds(row, v) ==
    /\ row[2] = v[1]
    /\ row[3] = v[2]
    /\ row[4] = v[3]
    /\ row[5] = IntToStr(v[4].comment_count)
    /\ row[6] = IntToStr(v[4].like_count)
    /\ row[7] = IntToStr(v[4].view_count)
    /\ row[8] = v[4].duration
    /\ row[9] = v[4].description
    /\ row[10] = v[4].tags
    /\ row[11] = v[4].category_id

RowsOfURL(u) == { i \in 1..Len(file.rows) : file.rows[i][3] = u }

\* C1: after any sequence of save_to_csv runs on one path, starting with no
\* file and with batches that may repeat URLs, no two rows of the persisted
\* table have the same URL.
C1_NoTwoRowsShareURL ==
    \A i, j \in 1..Len(file.rows) :
        i # j => file.rows[i][3] # file.rows[j][3]

\* A run whose batch repeats a URL that the existing table already held.
C1_Witness ==
    /\ outcome = "ok"
    /\ Len(file.rows) >= 2
    /\ \E k \in 1..Len(existing_videos), i, j \in 1..Len(videos) :
        /\ i < j
        /\ videos[i][2] = videos[j][2]
        /\ existing_videos[k][2] = videos[i][2]

\* C2: for every URL occurring more than once in existing ++ new, the merged
\* output holds exactly one record for it, and its title, keyword and detail
\* fields are those of the last occurrence in existing ++ new.
C2_LastOccurrenceWins ==
    outcome = "ok" =>
        \A u \in URLsOf(all_videos) :
            Cardinality(Occurrences(all_videos, u)) > 1 =>
                /\ Cardinality(Occurrences(unique_videos, u)) = 1
                /\ \A i \in Occurrences(unique_videos, u) :
                       unique_videos[i] = all_videos[LastOcc(all_videos, u)]
                /\ Cardinality(RowsOfURL(u)) = 1
                /\ \A i \in RowsOfURL(u) :
                       RowHolds(file.rows[i], all_videos[LastOcc(all_videos, u)])

\* A URL held by the existing table and given twice in the batch, the three
\* records differing, where the table now shows the batch's later record.
C2_Witness ==
    /\ outcome = "ok"
    /\ \E k \in 1..Len(existing_videos), i, j \in 1..Len(videos) :
        /\ i < j
        /\ videos[i][2] = videos[j][2]
        /\ existing_videos[k][2] = videos[j][2]
        /\ videos[i] # videos[j]
        /\ existing_videos[k] # videos[j]
        /\ \E r \in 1..Len(file.rows) : RowHolds(file.rows[r], videos[j])

\* C3: the rows of the merged table are in first-seen-URL order of
\* existing ++ new: the URLs of the existing table keep their relative order
\* ahead of every URL only in the batch, and a URL whose value a later
\* occurrence replaces stays at its first position.
C3_FirstSeenOrder ==
    outcome = "ok" =>
        /\ URLsOf(all_videos) = { file.rows[i][3] : i \in 1..Len(file.rows) }
        /\ \A i, j \in 1..Len(file.rows) :
               i < j => FirstOcc(all_videos, file.rows[i][3])
                            < FirstOcc(all_videos, file.rows[j][3])
        /\ \A i \in 1..Len(existing_videos) :
               file.rows[i][3] = existing_videos[i][2]

\* The batch names a new URL before a URL of the existing table, with a
\* different record for the latter: the existing URL stays first and shows
\* the new values.
C3_Witness ==
    /\ outcome = "ok"
    /\ Len(existing_videos) = 2
    /\ Len(videos) = 2
    /\ videos[1][2] \notin URLsOf(existing_videos)
    /\ videos[2][2] = existing_videos[1][2]
    /\ videos[2] # existing_videos[1]
    /\ Len(file.rows) = 3
    /\ RowHolds(file.rows[1], videos[2])
    /\ file.rows[3][3] = videos[1][2]

\* C4: after every run the VideoID column is 1, 2, ..., N in row order, N the
\* number of distinct URLs of existing ++ new; a run against a nonexistent
\* path writes exactly the deduplicated batch, numbered 1..K.
C4_DenseVideoIDs ==
    outcome = "ok" =>
        /\ file.exists
        /\ file.header = fieldnames
        /\ Len(file.rows) = Cardinality(URLsOf(all_videos))
        /\ \A i \in 1..Len(file.rows) : file.rows[i][1] = IntToStr(i)
        /\ ~path_existed =>
            /\ Len(file.rows) = Cardinality(URLsOf(videos))
            /\ \A u \in URLsOf(videos) : \E i \in 1..Len(file.rows) :
                   /\ RowHolds(file.rows[i], videos[LastOcc(videos, u)])
                   /\ file.rows[i][1] = IntToStr(i)

\* A first run, on a nonexistent path, with a batch that gives one URL twice
\* with different records: one row, numbered 1, holding the later record.
C4_Witness ==
    /\ outcome = "ok"
    /\ ~path_existed
    /\ Len(videos) = 2
    /\ videos[1][2] = videos[2][2]
    /\ videos[1] # videos[2]
    /\ Len(file.rows) = 1
    /\ file.rows[1][1] = <<"1">>
    /\ RowHolds(file.rows[1], videos[2])

\* The rows of a table without their VideoID cell.
WithoutVideoID(rows) == [i \in 1..Len(rows) |-> Tail(rows[i])]

\* C5: a run with an empty batch on a table written by save_to_csv rewrites
\* the same rows in the same order with the same field values (VideoID
\* aside), however many such runs follow one another.
C5_EmptyBatchIdempotent ==
    [][(file.exists /\ videos' = <<>>) =>
          /\ outcome' = "ok"
          /\ file'.header = file.header
          /\ WithoutVideoID(file'.rows) = WithoutVideoID(file.rows)]_vars

\* An empty-batch run has rewritten a table of three rows.
C5_Witness ==
    /\ outcome = "ok"
    /\ path_existed
    /\ videos = <<>>
    /\ Len(existing_videos) = 3
    /\ Len(file.rows) = 3

-----------------------------------------------------------------------------
(* Runs against a table that is already on disk and that this version of   *)
(* save_to_csv did not write: an older format (a column missing), rows cut *)
(* short, a counter cell left empty or holding text, blank lines.          *)

WithoutCol(header, col) == SelectSeq(header, LAMBDA c : c # col)

DiskHeaders ==
    { fieldnames,
      WithoutCol(fieldnames, "Keyword"),
      WithoutCol(fieldnames, "View Count"),
      WithoutCol(fieldnames, "Title") }

DiskCell(col, u) ==
    CASE col = "VideoID"       -> <<"1">>
      [] col = "Title"         -> <<"a">>
      [] col = "URL"           -> u
      [] col = "Keyword"       -> <<"k">>
      [] col = "Comment Count" -> <<"0">>
      [] col = "Like Count"    -> <<"3">>
      [] col = "View Count"    -> <<"7">>
      [] col = "Duration"      -> <<"0", ":", "1">>
      [] col = "Description"   -> <<>>
      [] col = "Tags"          -> <<"t">>
      [] col = "Category ID"   -> <<"2">>

DiskRow(header, u) == [i \in 1..Len(header) |-> DiskCell(header[i], u)]

\* The row with the cell of column col (when the header has it) replaced.
WithCell(header, row, col, cell) ==
    [i \in 1..Len(row) |-> IF header[i] = col THEN cell ELSE row[i]]

DiskRows(header) ==
    UNION { { DiskRow(header, u),
              WithCell(header, DiskRow(header, u), "View Count", <<>>),
              WithCell(header, DiskRow(header, u), "View Count", <<"x">>),
              SubSeq(DiskRow(header, u), 1, 3),
              SubSeq(DiskRow(header, u), 1, Len(header) - 1),
              <<>> } : u \in {<<"u">>, <<"v">>} }

DiskFiles ==
    { [exists |-> TRUE, header |-> h, rows |-> rs] :
        h \in DiskHeaders, rs \in {<<>>} } \cup
    UNION { { [exists |-> TRUE, header |-> h, rows |-> rs] :
                rs \in SeqsUpTo(DiskRows(h), MaxDiskRows) } : h \in DiskHeaders }

InitLoad ==
    /\ file \in DiskFiles
    /\ NoRunYet
    /\ NoConcurrentRuns
    /\ NoAnalysisYet
    /\ NoProblemsFile

SpecLoad == InitLoad /\ [][Next]_vars

\* A row from which the required fields cannot be extracted.
FailsExtraction(header, row) == RowRaises(header, row)

\* The records of the rows of f that do not fail extraction, in order.
ExtractableVideos(f) ==
    LET good == SelectSeq(DictReaderRows(f),
                          LAMBDA r : ~FailsExtraction(f.header, r))
    IN  [i \in 1..Len(good) |-> RowToVideo(f.header, good[i])]

\* C6: when the existing table has a row from which the required fields
\* cannot be extracted, the load skips that row and goes on; the merge does
\* not abort, and the remaining existing rows merged with the batch are
\* written.
C6_UnextractableRowSkipped ==
    [][(file.exists /\ \E i \in 1..Len(file.rows) :
                           /\ Len(file.rows[i]) > 0
                           /\ FailsExtraction(file.header, file.rows[i]))
        => /\ outcome' = "ok"
           /\ existing_videos' = ExtractableVideos(file)
           /\ file' = WrittenFile(videos_with_id(
                          remove_duplicates(ExtractableVideos(file) \o videos')))
      ]_vars

\* What C7 says a counter and a text field load as.
C7_Counter(header, row, col) ==
    IF HasCol(header, col)
       /\ ColIndex(header, col) <= Len(row)
       /\ IsIntLiteral(row[ColIndex(header, col)])
    THEN ParseInt(row[ColIndex(header, col)])
    ELSE 0

C7_Text(header, row, col) ==
    IF HasCol(header, col) /\ ColIndex(header, col) <= Len(row)
    THEN row[ColIndex(header, col)]
    ELSE <<>>

\* C7: every record load_existing_videos produces has integer counters: a
\* counter whose column is absent, whose cell is missing from the row, or
\* whose cell is empty or no decimal integer loads as 0, and a missing text
\* field loads as the empty string.  (Stated for tables that have the Title
\* and URL columns.)
C7_CountersDefaultToZero ==
    [][(file.exists /\ HasCol(file.header, "Title") /\ HasCol(file.header, "URL"))
        => /\ outcome' = "ok"
           /\ Len(existing_videos') = Len(DictReaderRows(file))
           /\ \A i \in 1..Len(existing_videos') :
                LET h == file.header
                    r == DictReaderRows(file)[i]
                    v == existing_videos'[i]
                IN  /\ v[1] = C7_Text(h, r, "Title")
                    /\ v[2] = C7_Text(h, r, "URL")
                    /\ v[3] = C7_Text(h, r, "Keyword")
                    /\ v[4].comment_count = C7_Counter(h, r, "Comment Count")
                    /\ v[4].like_count = C7_Counter(h, r, "Like Count")
                    /\ v[4].view_count = C7_Counter(h, r, "View Count")
                    /\ v[4].duration = C7_Text(h, r, "Duration")
                    /\ v[4].description = C7_Text(h, r, "Description")
                    /\ v[4].tags = C7_Text(h, r, "Tags")
                    /\ v[4].category_id = C7_Text(h, r, "Category ID")
      ]_vars

-----------------------------------------------------------------------------
(* Two runs of save_to_csv at once on one path.  The function takes no     *)
(* lock; a run is three steps: it loads and merges in memory (lines        *)
(* 131-135), opens the path for writing, which truncates the file (line    *)
(* 137), and leaves the with block, which writes the buffered header and   *)
(* rows from the start of the file and closes it (lines 138-154).  The     *)
(* file is kept line by line: a write of n lines replaces the first n      *)
(* lines of what the file holds and leaves the lines after them.           *)

\* The file just after open(output_file, 'w') without truncation.
TruncatedFile_Kept(f) ==
    [exists |-> TRUE, header |-> f.header, rows |-> f.rows]

\* The file just after open(output_file, 'w').
TruncatedFile(f) == [exists |-> TRUE, header |-> <<>>, rows |-> <<>>]

\* The file after header and rows are written from its start.
WrittenOver(f, with_id) ==
    LET new == WrittenFile(with_id) IN
    [ exists |-> TRUE,
      header |-> new.header,
      rows   |-> new.rows \o SubSeq(f.rows, Len(new.rows) + 1, Len(f.rows)) ]

Load(p, new) ==
    LET loaded == load_existing_videos(file) IN
    /\ pc[p] = "start"
    /\ events' = Append(events, <<p, "load">>)
    /\ IF loaded.raised
       THEN /\ pc' = [pc EXCEPT ![p] = "raised"]
            /\ UNCHANGED loc
       ELSE /\ pc' = [pc EXCEPT ![p] = "loaded"]
            /\ loc' = [loc EXCEPT ![p] =
                         [ existing_videos |-> loaded.videos,
                           videos          |-> new,
                           unique_videos   |->
                               remove_duplicates(loaded.videos \o new) ]]
    /\ UNCHANGED <<file, run_vars, analysis_vars, explode_vars>>

Open(p) ==
    /\ pc[p] = "loaded"
    /\ file' = TruncatedFile(file)
    /\ pc' = [pc EXCEPT ![p] = "opened"]
    /\ events' = Append(events, <<p, "open">>)
    /\ UNCHANGED <<loc, run_vars, analysis_vars, explode_vars>>

Close(p) ==
    /\ pc[p] = "opened"
    /\ file' = WrittenOver(file, videos_with_id(loc[p].unique_videos))
    /\ pc' = [pc EXCEPT ![p] = "done"]
    /\ events' = Append(events, <<p, "close">>)
    /\ UNCHANGED <<loc, run_vars, analysis_vars, explode_vars>>

\* The table one earlier run wrote.
OneRowFile ==
    WrittenFile(videos_with_id(
        << << <<"a">>, <<"u">>, <<"k">>, Details(7, <<>>) >> >>))

InitConc ==
    /\ file \in {AbsentFile, OneRowFile}
    /\ NoRunYet
    /\ NoConcurrentRuns
    /\ NoAnalysisYet
    /\ NoProblemsFile

NextConc ==
    \E p \in Procs :
        \/ \E new \in Batches : Load(p, new)
        \/ Open(p)
        \/ Close(p)

SpecConc == InitConc /\ [][NextConc]_vars

EventAt(p, kind) == CHOOSE i \in 1..Len(events) : events[i] = <<p, kind>>

Happened(p, kind) == \E i \in 1..Len(events) : events[i] = <<p, kind>>

BothDone == \A p \in Procs : pc[p] = "done"

\* Both runs loaded the existing table before either opened it for writing.
BothLoadedBeforeEitherWrote ==
    \A p, q \in Procs : EventAt(p, "load") < EventAt(q, "open")

\* The run whose write ended last.
LastWriter == events[Len(events)][1]

\* One run opened the file while the other had it open.
WritesOverlapped ==
    \E p, q \in Procs :
        /\ p # q
        /\ EventAt(p, "open") < EventAt(q, "open")
        /\ EventAt(q, "open") < EventAt(p, "close")

\* The final file is exactly the table run p built, and holds no URL that
\* only the other run's batch gave.
FileIsTableOf(p) ==
    /\ file.exists
    /\ file.header = fieldnames
    /\ Len(file.rows) = Len(loc[p].unique_videos)
    /\ \A i \in 1..Len(file.rows) :
          /\ file.rows[i][1] = IntToStr(i)
          /\ RowHolds(file.rows[i], loc[p].unique_videos[i])
    /\ \A q \in Procs \ {p} :
          \A u \in URLsOf(loc[q].videos) :
              u \notin URLsOf(loc[p].existing_videos \o loc[p].videos)
                  => \A i \in 1..Len(file.rows) : file.rows[i][3] # u

\* C8 as stated: if both runs load before either writes, the final file is
\* exactly the table of the run that writes last, and the records only the
\* other run's batch gave are absent from it.
C8_LastWriterWins ==
    (BothDone /\ BothLoadedBeforeEitherWrote) => FileIsTableOf(LastWriter)

\* C8 as amended: the same, when the two runs' writes (open to close) do not
\* overlap.
C8_LastWriterWinsUnlessWritesOverlap ==
    (BothDone /\ BothLoadedBeforeEitherWrote /\ ~WritesOverlapped)
        => FileIsTableOf(LastWriter)

\* A lost update: both loaded first, the writes did not overlap, and a URL of
\* the first writer's batch is in no row of the final file.
C8_Witness ==
    /\ BothDone
    /\ BothLoadedBeforeEitherWrote
    /\ ~WritesOverlapped
    /\ \E q \in Procs \ {LastWriter} :
         \E u \in URLsOf(loc[q].videos) :
             \A i \in 1..Len(file.rows) : file.rows[i][3] # u

-----------------------------------------------------------------------------
(* 01_analyzeTranscripts.py *)

\* __main__: the configuration of the script
START_ID == 0

END_ID == 3

MIN_TRANSCRIPT_WORDS == 20

csv_headers ==
    <<"VideoID", "Title", "URL", "Electrical Terms", "Problems/Challenges",
      "Tools/Equipment", "Educational Content">>

\* 'Error in analysis'
ErrorInAnalysis ==
    <<"E", "r", "r", "o", "r", " ", "i", "n", " ",
      "a", "n", "a", "l", "y", "s", "i", "s">>

\* 'N/A - Short/No Transcript'
ShortNoTranscript ==
    <<"N", "/", "A", " ", "-", " ", "S", "h", "o", "r", "t", "/", "N", "o",
      " ", "T", "r", "a", "n", "s", "c", "r", "i", "p", "t">>

\* A JSON value as json.loads returns it.  An object is a dict, kept as in
\* DictSet; the value of a field is a list of str (items: the strings), a
\* str (items: its characters as strs, what iterating it yields), a list
\* holding a number, a number, or null.
JNone == [type |-> "none", fields |-> <<>>]

JField(type, items) == [type |-> type, items |-> items]

JObject(fields) == [type |-> "object", fields |-> fields]

JScalar(type) == [type |-> type, fields |-> <<>>]

\* The object the prompt asks for.
ExpectedObject ==
    JObject(<< <<"Electrical_Terms", JField("strlist", << <<"a">> >>)>>,
               <<"Problems_Challenges",
                 JField("strlist", << <<"b">>, <<"c", "d">> >>)>>,
               <<"Tools_Equipment", JField("strlist", <<>>)>>,
               <<"Educational_Content", JField("strlist", << <<"e">> >>)>> >>)

\* Valid JSON that is not that object.
UnexpectedValues ==
    { JObject(<< <<"Electrical_Terms", JField("strlist", << <<"a">> >>)>> >>),
      JObject(<< <<"Electrical_Terms", JField("strlist", << <<"a">> >>)>>,
                 <<"Problems_Challenges", JField("string", << <<"b">>, <<"c">> >>)>>,
                 <<"Tools_Equipment", JField("strlist", <<>>)>>,
                 <<"Educational_Content", JField("strlist", << <<"e">> >>)>> >>),
      JObject(<< <<"Electrical_Terms", JField("strlist", << <<"a">> >>)>>,
                 <<"Problems_Challenges", JField("strlist", << <<"b">> >>)>>,
                 <<"Tools_Equipment", JField("numlist", <<>>)>>,
                 <<"Educational_Content", JField("strlist", << <<"e">> >>)>> >>),
      JObject(<< <<"Electrical_Terms", JField("strlist", << <<"a">> >>)>>,
                 <<"Problems_Challenges", JField("strlist", << <<"b">> >>)>>,
                 <<"Tools_Equipment", JField("strlist", <<>>)>>,
                 <<"Educational_Content", JField("null", <<>>)>> >>),
      JScalar("array"),
      JScalar("null") }

\* What the POST to the completions endpoint comes to.
Responses ==
    { [kind |-> k, json |-> JNone] :
        k \in {"transport", "http_error", "status_not_200", "no_choices",
               "empty_choices", "content_not_json"} }
    \cup { [kind |-> "content", json |-> j] :
             j \in {ExpectedObject} \cup UnexpectedValues }

\* The str analyze_transcript returns: one of its error prefixes (error), or
\* the content, which json.loads accepted (value).  No JSON text starts with
\* one of the prefixes.
analyze_transcript(resp) ==
    CASE resp.kind \in {"transport", "http_error"} ->
             [error |-> "Request Error:", value |-> JNone]
      [] resp.kind = "status_not_200" ->
             [error |-> "Error:", value |-> JNone]
      [] resp.kind = "no_choices" ->
             [error |-> "Key Error:", value |-> JNone]
      [] resp.kind = "empty_choices" ->
             [error |-> "Unexpected Error:", value |-> JNone]
      [] resp.kind = "content_not_json" ->
             [error |-> "JSON Decode Error:", value |-> JNone]
      [] resp.kind = "content" ->
             [error |-> "", value |-> resp.json]

\* The startswith test of process_videos without "Key Error:".
StartsWithErrorPrefix_NoKeyError(a) ==
    a.error \in {"Error:", "Request Error:", "JSON Decode Error:",
                 "Unexpected Error:"}

\* analysis.startswith("Error:") or ... or startswith("Unexpected Error:")
StartsWithErrorPrefix(a) ==
    a.error \in {"Error:", "Request Error:", "JSON Decode Error:",
                 "Key Error:", "Unexpected Error:"}

\* ', '.join(items)
RECURSIVE Join(_)
Join(items) ==
    IF Len(items) = 0 THEN <<>>
    ELSE IF Len(items) = 1 THEN items[1]
    ELSE items[1] \o <<",", " ">> \o Join(Tail(items))

HasKey(d, k) == \E i \in 1..Len(d) : d[i][1] = k

\* analysis_dict.get(key, [])
DictGet(d, k) ==
    IF HasKey(d, k) THEN d[CHOOSE i \in 1..Len(d) : d[i][1] = k][2]
    ELSE JField("strlist", <<>>)

AnalysisKeys ==
    <<"Electrical_Terms", "Problems_Challenges", "Tools_Equipment",
      "Educational_Content">>

\* json.loads(analysis) and the four joins go through: the value has .get
\* (it is a dict) and every field got is a list of str or a str.  Otherwise
\* an exception reaches the except of the loop body, which prints it.
JoinsGoThrough(a) ==
    /\ a.error = ""
    /\ a.value.type = "object"
    /\ \A n \in 1..4 :
           DictGet(a.value.fields, AnalysisKeys[n]).type \in {"strlist", "string"}

OutRow(video, cells) ==
    <<IntToStr(video.VideoID), video.Title, video.URL>> \o cells

InRange(video) ==
    run.start_id <= video.VideoID /\ video.VideoID <= run.end_id

\* set(int(row['VideoID']) for row in reader if row['VideoID'].isdigit())
IsDigitStr(s) == Len(s) >= 1 /\ \A i \in 1..Len(s) : IsDigit(s[i])

ProcessedVideoIDs_SkipsLastRow(f) ==
    { ParseInt(f.rows[i][1]) :
        i \in { j \in 1..(Len(f.rows) - 1) : IsDigitStr(f.rows[j][1]) } }

ProcessedVideoIDs(f) ==
    { ParseInt(r[1]) : r \in { f.rows[i] : i \in { j \in 1..Len(f.rows) :
                                                   IsDigitStr(f.rows[j][1]) } } }

\* process_videos up to the loop: the ids already in the output file, then
\* the file opened to append, or created with its header.
StartRun(start_id, end_id) ==
    /\ run.phase = "idle"
    /\ run' = [ phase |-> "loop", start_id |-> start_id, end_id |-> end_id,
                processed_video_ids |->
                    IF out_csv.exists THEN ProcessedVideoIDs(out_csv) ELSE {},
                idx |-> 1, videos_processed |-> 0, videos_skipped |-> 0 ]
    /\ out_csv' = IF out_csv.exists THEN out_csv
                  ELSE [exists |-> TRUE, header |-> csv_headers, rows |-> <<>>]
    /\ UNCHANGED <<data, analysis, file, run_vars, conc_vars, explode_vars>>

\* One pass of the loop body, for data[run.idx]; resp is what the request
\* comes to if one is made.
LoopBody(resp) ==
    /\ run.phase = "loop"
    /\ run.idx <= Len(data)
    /\ LET video     == data[run.idx]
           next      == [run EXCEPT !.idx = run.idx + 1]
           skipped   == [next EXCEPT !.videos_skipped = @ + 1]
           processed == [next EXCEPT !.videos_processed = @ + 1]
       IN
       IF ~InRange(video)
       THEN /\ run' = next
            /\ UNCHANGED <<out_csv, analysis>>
       ELSE IF video.VideoID \in run.processed_video_ids
       THEN /\ run' = skipped
            /\ UNCHANGED <<out_csv, analysis>>
       ELSE IF Len(video.Transcript) < MIN_TRANSCRIPT_WORDS
       THEN /\ out_csv' = [out_csv EXCEPT !.rows = Append(@,
                OutRow(video, [n \in 1..4 |-> ShortNoTranscript]))]
            /\ run' = processed
            /\ UNCHANGED analysis
       ELSE /\ analysis' = analyze_transcript(resp)
            /\ IF StartsWithErrorPrefix(analysis')
               THEN /\ out_csv' = [out_csv EXCEPT !.rows = Append(@,
                           OutRow(video, [n \in 1..4 |-> ErrorInAnalysis]))]
                    /\ run' = processed
               ELSE IF JoinsGoThrough(analysis')
               THEN /\ out_csv' = [out_csv EXCEPT !.rows = Append(@,
                           OutRow(video, [n \in 1..4 |->
                               Join(DictGet(analysis'.value.fields,
                                            AnalysisKeys[n]).items)]))]
                    /\ run' = processed
               ELSE /\ run' = next
                    /\ UNCHANGED out_csv
    /\ UNCHANGED <<data, file, run_vars, conc_vars, explode_vars>>

\* The loop is over; the file is closed and the counts are printed.
EndRun ==
    /\ run.phase = "loop"
    /\ run.idx > Len(data)
    /\ run' = [ phase |-> "idle", start_id |-> 0, end_id |-> 0,
                processed_video_ids |-> {}, idx |-> 1,
                videos_processed |-> 0, videos_skipped |-> 0 ]
    /\ UNCHANGED <<data, out_csv, analysis, file, run_vars, conc_vars,
                   explode_vars>>

\* The transcript of a video as transcript.split() cuts it: n words.
Words(n) == [i \in 1..n |-> "w"]

InputVideo(id, words) ==
    [ VideoID |-> id, Title |-> <<"a">>, URL |-> <<"u">> \o IntToStr(id),
      Transcript |-> Words(words) ]

\* transcripts.json: the videos of the table that have a transcript, in the
\* order of their VideoID.
Datasets ==
    { d \in SeqsUpTo({ InputVideo(id, w) :
                         id \in 1..MaxVideos,
                         w \in {MIN_TRANSCRIPT_WORDS - 1, MIN_TRANSCRIPT_WORDS} },
                     MaxVideos) :
        \A i \in 1..(Len(d) - 1) : d[i].VideoID < d[i + 1].VideoID }

InitAnalyze ==
    /\ file = AbsentFile
    /\ NoRunYet
    /\ NoConcurrentRuns
    /\ data \in Datasets
    /\ out_csv = AbsentFile
    /\ run = [ phase |-> "idle", start_id |-> 0, end_id |-> 0,
               processed_video_ids |-> {}, idx |-> 1,
               videos_processed |-> 0, videos_skipped |-> 0 ]
    /\ analysis = [error |-> "", value |-> JNone]
    /\ NoProblemsFile

NextAnalyze ==
    \/ \E start_id \in {START_ID, 2}, end_id \in {1, END_ID} :
           StartRun(start_id, end_id)
    \/ \E resp \in Responses : LoopBody(resp)
    \/ EndRun

SpecAnalyze == InitAnalyze /\ [][NextAnalyze]_vars

\* The pass of the loop body now taken analyses data[run.idx]: the video is
\* in range, not yet processed and its transcript is long enough.
AnalysisPass ==
    /\ run.phase = "loop"
    /\ run.idx <= Len(data)
    /\ run'.idx = run.idx + 1
    /\ InRange(data[run.idx])
    /\ data[run.idx].VideoID \notin run.processed_video_ids
    /\ Len(data[run.idx].Transcript) >= MIN_TRANSCRIPT_WORDS

\* The value is the object asked for: four lists of strings.
IsExpectedObject(v) ==
    /\ v.type = "object"
    /\ \A n \in 1..4 :
          /\ HasKey(v.fields, AnalysisKeys[n])
          /\ DictGet(v.fields, AnalysisKeys[n]).type = "strlist"

ErrorRow(video) ==
    <<IntToStr(video.VideoID), video.Title, video.URL,
      ErrorInAnalysis, ErrorInAnalysis, ErrorInAnalysis, ErrorInAnalysis>>

HasRow(video) ==
    \E i \in 1..Len(out_csv.rows) : out_csv.rows[i][1] = IntToStr(video.VideoID)

OneRowPerVideoID ==
    \A i, j \in 1..Len(out_csv.rows) :
        i # j => out_csv.rows[i][1] # out_csv.rows[j][1]

\* The pass of the loop body now taken is for a video that has a row in the
\* output file.  A run passes over each video of its input once, and the
\* VideoIDs of the input differ (they are the numbers save_to_csv gave), so
\* the row was written in an earlier run.
PassOverWrittenVideo ==
    /\ run.phase = "loop"
    /\ run.idx <= Len(data)
    /\ run'.idx = run.idx + 1
    /\ HasRow(data[run.idx])

\* C11: over any sequence of process_videos runs on one output file, with
\* any start_id/end_id and any outcome of the analysis call, the output file
\* has at most one row per VideoID, and a video whose row was written in an
\* earlier run is passed over in every later run: no request is made for it,
\* no row is written, and when it is in range it is counted as skipped.
C11_ResumableAnalysis ==
    /\ []OneRowPerVideoID
    /\ [][PassOverWrittenVideo
          => /\ out_csv' = out_csv
             /\ analysis' = analysis
             /\ run'.videos_processed = run.videos_processed
             /\ InRange(data[run.idx])
                   => run'.videos_skipped = run.videos_skipped + 1]_vars

\* A first run with end_id 1 wrote the row of video 1; a later run over both
\* videos skipped video 1 and wrote the row of video 2.
C11_Witness ==
    /\ run.phase = "loop"
    /\ run.idx = 3
    /\ Len(data) = 2
    /\ run.processed_video_ids = {1}
    /\ run.videos_skipped = 1
    /\ run.videos_processed = 1
    /\ Len(out_csv.rows) = 2
    /\ out_csv.rows[1][1] = <<"1">>
    /\ out_csv.rows[2][1] = <<"2">>

-----------------------------------------------------------------------------
(* 03_breakToColumn.py: the list-column explode                             *)
(*                                                                         *)
(* A DataFrame is [columns, dtypes, rows]; a cell is [t, s]: t is "nan"    *)
(* for a missing value and otherwise "str", "int" or "float", and s is the *)
(* text to_csv writes for the value.                                       *)

NaN == [t |-> "nan", s |-> <<>>]

\* pd.read_csv infers one dtype per column.  A column without rows is
\* object; a column whose cells are all empty is float64 (all NaN); cells
\* that are all integers make int64, integers and empty cells float64, and
\* anything else object, where the cells stay str and an empty cell is NaN.
\* (The cells used here are empty, unsigned integers or other text.)
IsInteger(text) ==
    /\ Len(text) >= 1
    /\ \A i \in 1..Len(text) : IsDigit(text[i])

InferDtype(texts) ==
    IF Len(texts) = 0 THEN "object"
    ELSE IF \A i \in 1..Len(texts) : texts[i] = <<>> THEN "float64"
    ELSE IF \A i \in 1..Len(texts) : IsInteger(texts[i]) THEN "int64"
    ELSE IF \A i \in 1..Len(texts) : texts[i] = <<>> \/ IsInteger(texts[i])
         THEN "float64"
    ELSE "object"

ParseCell(dtype, text) ==
    IF text = <<>> THEN NaN
    ELSE CASE dtype = "int64"   -> [t |-> "int", s |-> NatToStr(ParseNat(text))]
           [] dtype = "float64" -> [t |-> "float",
                                    s |-> NatToStr(ParseNat(text)) \o <<".", "0">>]
           [] dtype = "object"  -> [t |-> "str", s |-> text]

read_csv(f) ==
    LET dtypes == [c \in 1..Len(f.header) |->
                      InferDtype([i \in 1..Len(f.rows) |-> f.rows[i][c]])]
    IN  [ columns |-> f.header,
          dtypes  |-> dtypes,
          rows    |-> [i \in 1..Len(f.rows) |->
                         [c \in 1..Len(f.header) |->
                             ParseCell(dtypes[c], f.rows[i][c])]] ]

\* df['Problems/Challenges'] raises KeyError when df has no such column, and
\* .str raises AttributeError on a column that is not of object dtype.
GetItemRaises(d, col) == ~HasCol(d.columns, col)

StrRaises(d, col) == d.dtypes[ColIndex(d.columns, col)] # "object"

\* str.split(', ') of a str: the pieces between the occurrences of ", ",
\* found from the left; a str without ", " is its only piece.
RECURSIVE Split(_)
Split(s) ==
    IF \E i \in 1..(Len(s) - 1) : s[i] = "," /\ s[i + 1] = " "
    THEN LET i == CHOOSE i \in 1..(Len(s) - 1) :
                     /\ s[i] = "," /\ s[i + 1] = " "
                     /\ \A j \in 1..(i - 1) : ~(s[j] = "," /\ s[j + 1] = " ")
         IN  <<SubSeq(s, 1, i - 1)>> \o Split(SubSeq(s, i + 2, Len(s)))
    ELSE <<s>>

\* Series.str.split(', '): a list for each str, NaN stays NaN.
str_split(cell) ==
    IF cell.t = "nan" THEN [isna |-> TRUE, items |-> <<>>]
    ELSE [isna |-> FALSE, items |-> Split(cell.s)]

\* DataFrame.assign(name=values): a column of that name is replaced where it
\* is, a new name is appended as the last column.
assign(d, name, values) ==
    IF HasCol(d.columns, name)
    THEN LET p == ColIndex(d.columns, name) IN
         [ columns |-> d.columns,
           dtypes  |-> [d.dtypes EXCEPT ![p] = "object"],
           rows    |-> [i \in 1..Len(d.rows) |->
                          [d.rows[i] EXCEPT ![p] = values[i]]] ]
    ELSE [ columns |-> Append(d.columns, name),
           dtypes  |-> Append(d.dtypes, "object"),
           rows    |-> [i \in 1..Len(d.rows) |-> Append(d.rows[i], values[i])] ]

\* DataFrame.explode(name): a row whose cell is a list becomes one row per
\* item, in order, the other cells repeated; a row whose cell is NaN or an
\* empty list is one row with NaN.
ExplodeRow(row, p) ==
    IF row[p].isna \/ row[p].items = <<>>
    THEN << [row EXCEPT ![p] = NaN] >>
    ELSE [j \in 1..Len(row[p].items) |->
             [row EXCEPT ![p] = [t |-> "str", s |-> row[p].items[j]]]]

RECURSIVE ExplodeRows(_, _)
ExplodeRows(rows, p) ==
    IF rows = <<>> THEN <<>>
    ELSE ExplodeRow(Head(rows), p) \o ExplodeRows(Tail(rows), p)

explode(d, name) ==
    [d EXCEPT !.rows = ExplodeRows(d.rows, ColIndex(d.columns, name))]

RemoveAt(seq, p) == SubSeq(seq, 1, p - 1) \o SubSeq(seq, p + 1, Len(seq))

\* DataFrame.drop(columns=[name])
drop(d, name) ==
    LET p == ColIndex(d.columns, name) IN
    [ columns |-> RemoveAt(d.columns, p),
      dtypes  |-> RemoveAt(d.dtypes, p),
      rows    |-> [i \in 1..Len(d.rows) |-> RemoveAt(d.rows[i], p)] ]

\* DataFrame.rename(columns={old: new})
rename(d, old, new) ==
    [d EXCEPT !.columns = [c \in 1..Len(d.columns) |->
                              IF d.columns[c] = old THEN new ELSE d.columns[c]]]

\* DataFrame.to_csv(path, index=False): the header and one line per row, NaN
\* written as the empty field.
CellText(cell) == IF cell.t = "nan" THEN <<>> ELSE cell.s

to_csv(d) ==
    [ exists |-> TRUE,
      header |-> d.columns,
      rows   |-> [i \in 1..Len(d.rows) |->
                    [c \in 1..Len(d.columns) |-> CellText(d.rows[i][c])]] ]

\* df = pd.read_csv('02_Problems.csv')
LoadData ==
    /\ stmt = "read_csv"
    /\ df' = read_csv(problems_csv)
    /\ stmt' = "explode"
    /\ UNCHANGED <<problems_csv, df_exploded, exploded_csv>>
    /\ UNCHANGED <<file, run_vars, conc_vars, analysis_vars>>

\* df_exploded = df.assign(Problems_Challenges=
\*     df['Problems/Challenges'].str.split(', ')).explode('Problems_Challenges')
SplitIntoRows ==
    /\ stmt = "explode"
    /\ IF \/ GetItemRaises(df, "Problems/Challenges")
          \/ StrRaises(df, "Problems/Challenges")
       THEN /\ stmt' = "raised"
            /\ UNCHANGED df_exploded
       ELSE LET p == ColIndex(df.columns, "Problems/Challenges")
                lists == [i \in 1..Len(df.rows) |-> str_split(df.rows[i][p])]
            IN  /\ df_exploded' = explode(assign(df, "Problems_Challenges", lists),
                                          "Problems_Challenges")
                /\ stmt' = "drop"
    /\ UNCHANGED <<problems_csv, df, exploded_csv>>
    /\ UNCHANGED <<file, run_vars, conc_vars, analysis_vars>>

\* df_exploded = df_exploded.drop(columns=['Problems/Challenges'])
DropOriginalColumn ==
    /\ stmt = "drop"
    /\ df_exploded' = drop(df_exploded, "Problems/Challenges")
    /\ stmt' = "rename"
    /\ UNCHANGED <<problems_csv, df, exploded_csv>>
    /\ UNCHANGED <<file, run_vars, conc_vars, analysis_vars>>

\* df_exploded.rename(columns={'Problems_Challenges': 'Problem_Challenge'},
\*                    inplace=True)
RenameExplodedColumn ==
    /\ stmt = "rename"
    /\ df_exploded' = rename(df_exploded, "Problems_Challenges", "Problem_Challenge")
    /\ stmt' = "to_csv"
    /\ UNCHANGED <<problems_csv, df, exploded_csv>>
    /\ UNCHANGED <<file, run_vars, conc_vars, analysis_vars>>

\* df_exploded.to_csv('03_exploded_problems_challenges.csv', index=False)
SaveResult ==
    /\ stmt = "to_csv"
    /\ exploded_csv' = to_csv(df_exploded)
    /\ stmt' = "done"
    /\ UNCHANGED <<problems_csv, df, df_exploded>>
    /\ UNCHANGED <<file, run_vars, conc_vars, analysis_vars>>

\* The tables 02_Problems.csv may hold: the list column with another column
\* before or after it, next to a column already named Problems_Challenges,
\* or not there at all; up to MaxTableRows rows.
ProblemHeaders ==
    { <<"VideoID", "Problems/Challenges">>,
      <<"Problems/Challenges", "Title">>,
      <<"Problems_Challenges", "Problems/Challenges">>,
      <<"VideoID", "Title">> }

\* Cells of the list column: empty, one item, two and three items, a comma
\* that is no separator, and a number.
ListCells ==
    { <<>>,
      <<"a">>,
      <<"a", ",", " ", "b">>,
      <<"a", ",", " ", "b", ",", " ", "c">>,
      <<"b", ",", "c">>,
      <<"5">> }

OtherCells == { <<>>, <<"0", "7">>, <<"x">> }

ProblemRows(header) ==
    { row \in [1..Len(header) -> ListCells \cup OtherCells] :
        \A c \in 1..Len(header) :
            row[c] \in (IF header[c] = "Problems/Challenges"
                        THEN ListCells ELSE OtherCells) }

ProblemFiles ==
    UNION { { [exists |-> TRUE, header |-> h, rows |-> rs] :
                rs \in SeqsUpTo(ProblemRows(h), MaxTableRows) } :
            h \in ProblemHeaders }

InitExplode ==
    /\ file = AbsentFile
    /\ NoRunYet
    /\ NoConcurrentRuns
    /\ NoAnalysisYet
    /\ problems_csv \in ProblemFiles
    /\ NoExplodeYet

NextExplode ==
    \/ LoadData
    \/ SplitIntoRows
    \/ DropOriginalColumn
    \/ RenameExplodedColumn
    \/ SaveResult

SpecExplode == InitExplode /\ [][NextExplode]_vars

\* The script has run to its end or has stopped on an exception.
ScriptOver == stmt \in {"done", "raised"}

\* The items of the list cell of row i of 02_Problems.csv: its pieces between
\* the ", "; the empty cell has the one empty item.
ItemsOfRow(i) ==
    Split(problems_csv.rows[i][ColIndex(problems_csv.header,
                                        "Problems/Challenges")])

\* For every output row the law asks for, the input row and the item it
\* comes from: <<i, j>> for j over the items of row i, for i in order.
RECURSIVE RowItemPairs(_)
RowItemPairs(i) ==
    IF i > Len(problems_csv.rows) THEN <<>>
    ELSE [j \in 1..Len(ItemsOfRow(i)) |-> <<i, j>>] \o RowItemPairs(i + 1)

OtherColumns == WithoutCol(df.columns, "Problems/Challenges")

\* C10: when the script is over on a table that has the 'Problems/Challenges'
\* column, it has written its output; the output has, for each input row,
\* one row per item of the row's list cell split on ', ' (one row with an
\* empty item for an empty cell), so as many rows as there are items in all;
\* every other column is copied unchanged, 'Problems/Challenges' is gone and
\* 'Problem_Challenge' is the last column.
C10_ExplodeLaw ==
    (ScriptOver /\ HasCol(problems_csv.header, "Problems/Challenges"))
    => /\ stmt = "done"
       /\ exploded_csv = to_csv(df_exploded)
       /\ df_exploded.columns = Append(OtherColumns, "Problem_Challenge")
       /\ Len(df_exploded.rows) = Len(RowItemPairs(1))
       /\ \A k \in 1..Len(df_exploded.rows) :
             LET i == RowItemPairs(1)[k][1]
                 j == RowItemPairs(1)[k][2]
             IN  /\ \A c \in 1..Len(OtherColumns) :
                        df_exploded.rows[k][c]
                            = df.rows[i][ColIndex(df.columns, OtherColumns[c])]
                 /\ CellText(df_exploded.rows[k][Len(OtherColumns) + 1])
                        = ItemsOfRow(i)[j]

=============================================================================
